---- MODULE Spec2Model ----
(***************************************************************************)
(* Model of app_turnos_cloud.py: browser sessions (Streamlit session       *)
(* state) that sign in, upload files into the shared "turnos" table by     *)
(* batched upsert on row_id, and read it back page by page.                *)
(*                                                                         *)
(* Cell values are represented by their text.  A row carries the five key  *)
(* columns and Paciente, which stands for the eleven descriptive columns   *)
(* that the code copies verbatim.  Instants are minutes since              *)
(* 2024-03-01 00:00.  Column names are written without accents.           *)
(***************************************************************************)
EXTENDS Integers, Sequences, FiniteSets, TLC

\* ------------------------------------------------------------------ bounds
\* Files selected in one upload, and rows in all of them together.
MaxFiles == 2
MaxRows == 3
\* Rows of the single file each session uploads in the two-session race.
MaxRaceRows == 3
\* Records in the table when a range read starts.
MaxStore == 5

\* ------------------------------------------------------ program constants
\* BATCH = 200, page_size = 5000 and max_pages = 40 in the source; scaled
\* down here, the loops are the same.
BATCH == 2
page_size == 2
max_pages == 2
\* America/Argentina/Buenos_Aires is UTC-3 with no daylight saving.
UtcOffsetMin == 180

REQUIRED_COLS ==
    {"Fecha", "Hora", "Tipo Turno", "Paciente", "DNI", "Telefonos", "Mail",
     "Cobertura", "Ubicacion", "Efector", "Procedimiento",
     "Domicilio", "Localidad", "Edad", "Estado", "Atendido"}

\* ------------------------------------------------------------ value space
\* pandas' missing cell, JSON null, pandas' NaT / a null timestamptz.
NaN == "NaN"
None == "None"
NaT == -1

Sessions == {"s1", "s2"}
Users == {"u1", "u2"}
Roles == {"admin", "viewer"}

\* The rows a file may hold (the DataFrame rows read_any returns).
RawRows ==
    { [DNI |-> "1", Fecha |-> "01/03/2024", Hora |-> "09:30",
       Ubicacion |-> "U", Procedimiento |-> "P", Paciente |-> "a"],
      [DNI |-> "1", Fecha |-> "01/03/2024", Hora |-> "09:30",
       Ubicacion |-> "U", Procedimiento |-> "P", Paciente |-> "b"],
      [DNI |-> NaN, Fecha |-> "31/02/2024", Hora |-> "09:30",
       Ubicacion |-> "U", Procedimiento |-> "P", Paciente |-> "a"] }

ColumnSets == {REQUIRED_COLS, REQUIRED_COLS \ {"Hora", "Mail"}}

SeqsUpTo(S, n) == UNION {[1..k -> S] : k \in 0..n}

FileName(k) == IF k = 1 THEN "f1.csv" ELSE IF k = 2 THEN "f2.csv" ELSE "f3.csv"

\* rs cut into k files after the places cut[1] < ... < cut[k-1].
Split(rs, k, cut, cols) ==
    [j \in 1..k |->
        [columns |-> cols[j],
         rows |-> SubSeq(rs, (IF j = 1 THEN 0 ELSE cut[j - 1]) + 1,
                             IF j = k THEN Len(rs) ELSE cut[j])]]

\* What the uploader widget can hold: one file, or up to MaxFiles files
\* with rows, each with all the required columns or not.
UploadsOf(rs) ==
    UNION {{Split(rs, k, cut, cols) :
              cut \in {c \in [1..(k - 1) -> 1..(Len(rs) - 1)] :
                          \A j \in 1..(k - 2) : c[j] < c[j + 1]},
              cols \in [1..k -> ColumnSets]} : k \in 1..MaxFiles}
Uploads == UNION {UploadsOf(rs) : rs \in SeqsUpTo(RawRows, MaxRows)}
RaceUploads ==
    {<<[columns |-> REQUIRED_COLS, rows |-> rs]>> : rs \in SeqsUpTo(RawRows, MaxRaceRows)}

Range(f) == {f[x] : x \in DOMAIN f}
Min(a, b) == IF a < b THEN a ELSE b

\* --------------------------------------------------------- pure functions
\* Series.astype(str): a missing cell becomes the text "nan", so the
\* fillna("") that follows finds nothing to fill.
astype_str(v) == IF v = NaN THEN "nan" ELSE v

\* Day-first date text to days since 2024-03-01; NaT when it is no date.
parse_fecha(t) == IF t = "01/03/2024" THEN 0 ELSE IF t = "02/03/2024" THEN 1 ELSE NaT
\* Time text to minutes since midnight; NaT when it is no time.
parse_hora(t) == IF t = "09:30" THEN 570 ELSE IF t = "10:30" THEN 630 ELSE NaT

\* pd.to_datetime(Fecha + " " + Hora, dayfirst=True, errors="coerce")
to_datetime(fecha, hora) ==
    IF parse_fecha(astype_str(fecha)) = NaT \/ parse_hora(astype_str(hora)) = NaT
    THEN NaT
    ELSE parse_fecha(astype_str(fecha)) * 1440 + parse_hora(astype_str(hora))

\* .dt.tz_localize("America/Argentina/Buenos_Aires").dt.tz_convert("UTC")
tz_localize_convert(ts) == IF ts = NaT THEN NaT ELSE ts + UtcOffsetMin

\* Variant: NaT formatted as the epoch instead of None.
to_iso_utc_epoch(ts) == IF ts = NaT THEN 0 ELSE ts

\* to_iso_utc: None for NaT, else the UTC instant (the ISO text orders as it)
to_iso_utc(ts) == IF ts = NaT THEN NaT ELSE ts

fecha_hora(r) == to_iso_utc(tz_localize_convert(to_datetime(r.Fecha, r.Hora)))

\* Variant: a descriptive column joins the key.
row_parts_paciente(r) ==
    astype_str(r.DNI) \o "|" \o astype_str(r.Fecha) \o "|" \o astype_str(r.Hora)
      \o "|" \o astype_str(r.Ubicacion) \o "|" \o astype_str(r.Procedimiento)
      \o "|" \o astype_str(r.Paciente)

row_parts(r) ==
    astype_str(r.DNI) \o "|" \o astype_str(r.Fecha) \o "|" \o astype_str(r.Hora)
      \o "|" \o astype_str(r.Ubicacion) \o "|" \o astype_str(r.Procedimiento)

\* hashlib.sha1(...).hexdigest(), taken as injective
sha1(x) == "sha1(" \o x \o ")"

row_id(r) == sha1(row_parts(r))

safe_json_value(v) == IF v = NaN THEN None ELSE v

\* One row of `data`: row_id and fecha_hora derived, columns renamed and
\* selected, user_id attached.
DataRow(r, uid) ==
    [row_id |-> row_id(r),
     fecha |-> r.Fecha,
     hora |-> r.Hora,
     paciente |-> r.Paciente,
     dni |-> r.DNI,
     ubicacion |-> r.Ubicacion,
     procedimiento |-> r.Procedimiento,
     fecha_hora |-> fecha_hora(r),
     user_id |-> uid]

\* safe_json_records: every value of every row through safe_json_value
\* (fecha_hora is already None or an instant).
safe_json_records(rows) ==
    [k \in 1..Len(rows) |->
        [row_id |-> safe_json_value(rows[k].row_id),
         fecha |-> safe_json_value(rows[k].fecha),
         hora |-> safe_json_value(rows[k].hora),
         paciente |-> safe_json_value(rows[k].paciente),
         dni |-> safe_json_value(rows[k].dni),
         ubicacion |-> safe_json_value(rows[k].ubicacion),
         procedimiento |-> safe_json_value(rows[k].procedimiento),
         fecha_hora |-> rows[k].fecha_hora,
         user_id |-> safe_json_value(rows[k].user_id)]]

missing(f) == REQUIRED_COLS \ f.columns

\* Variant: the missing-column check does not skip the file.
ProcessFileNoSkip(f, uid) ==
    [k \in 1..Len(f.rows) |-> DataRow(f.rows[k], uid)]

\* One pass of the per-file loop: nothing for a file with missing columns.
ProcessFile(f, uid) ==
    IF missing(f) # {} THEN <<>>
    ELSE [k \in 1..Len(f.rows) |-> DataRow(f.rows[k], uid)]

RECURSIVE concat(_, _, _)
concat(fs, uid, k) ==
    IF k > Len(fs) THEN <<>> ELSE ProcessFile(fs[k], uid) \o concat(fs, uid, k + 1)

\* all_new is empty exactly when every file was skipped.
all_new_empty(fs) == \A k \in 1..Len(fs) : missing(fs[k]) # {}

\* The st.error lines of the skipped files, in order.
RECURSIVE skipped(_, _)
skipped(fs, k) ==
    IF k > Len(fs) THEN <<>>
    ELSE (IF missing(fs[k]) # {} THEN <<[name |-> FileName(k), faltan |-> missing(fs[k])]>>
          ELSE <<>>) \o skipped(fs, k + 1)

ids(payload) == {payload[k].row_id : k \in 1..Len(payload)}

\* Two rows of one statement with the same conflict key.
HasDup(payload) ==
    \E a, b \in 1..Len(payload) : a # b /\ payload[a].row_id = payload[b].row_id

\* Variant: conflicting rows are deleted and only the new row_ids inserted.
upsert_delete_insert(table, payload) ==
    {r \in table : r.row_id \notin ids(payload)}
        \cup {p \in Range(payload) : \A r \in table : r.row_id # p.row_id}

\* Variant: DO UPDATE of every column but user_id.
upsert_keep_user(table, payload) ==
    {r \in table : r.row_id \notin ids(payload)}
        \cup {IF \E r \in table : r.row_id = p.row_id
              THEN [p EXCEPT !.user_id = (CHOOSE r \in table : r.row_id = p.row_id).user_id]
              ELSE p : p \in Range(payload)}

\* INSERT ... ON CONFLICT (row_id) DO UPDATE of every column.
upsert(table, payload) ==
    {r \in table : r.row_id \notin ids(payload)} \cup Range(payload)

\* ------------------------------------------------------------------ state
VARIABLES
    store,      \* the "turnos" table: a set of records
    session,    \* st.session_state.session of each browser session: a user or None
    role,       \* st.session_state.role
    lookup,     \* what fetch_profiles did at the sign-in of the current principal
    files,      \* the uploader widget's selection
    pc,         \* where the upload run is: idle, upserting, done, failed
    data,       \* the concatenated DataFrame of the run
    i,          \* the batch loop's offset
    total,      \* records counted as upserted
    report,     \* what the run wrote on the page
    retry,      \* the run repeats the finished run before it, same files, same user
    before,     \* the table when the run started
    prevI,      \* the offset the run before a repeated run reached
    writer,     \* row_id -> the session whose batch wrote it last
    fpc,        \* where fetch_turnos is: idle, paging, returned
    date_from,
    date_to,
    order,      \* the row order the table answers this read in
    from_i,
    pages,      \* page requests made
    all_rows,
    pageLens    \* rows of each page received, in order

uploadVars == <<files, pc, data, i, total, report, retry, before, prevI>>
authVars == <<session, role, lookup>>
fetchVars == <<fpc, date_from, date_to, order, from_i, pages, all_rows, pageLens>>
vars == <<store, writer, authVars, uploadVars, fetchVars>>

\* The page of a run: the st.error line of each skipped file, then nothing
\* yet, the st.warning, the st.success with its count, or the traceback of
\* the exception that left the script (why: what raised it).
NoReport == [skipped |-> <<>>, kind |-> "none", counts |-> {}, why |-> "none"]

\* role = st.session_state.role or "viewer"
EffRole(s) == IF role[s] = None THEN "viewer" ELSE role[s]

\* The upload section is rendered: signed in and role == "admin".
UploadEnabled(s) == session[s] # None /\ EffRole(s) = "admin"

ResetRun(s) ==
    /\ pc' = [pc EXCEPT ![s] = "idle"]
    /\ data' = [data EXCEPT ![s] = <<>>]
    /\ i' = [i EXCEPT ![s] = 0]
    /\ total' = [total EXCEPT ![s] = 0]
    /\ report' = [report EXCEPT ![s] = NoReport]
    /\ retry' = [retry EXCEPT ![s] = FALSE]
    /\ before' = [before EXCEPT ![s] = {}]
    /\ prevI' = [prevI EXCEPT ![s] = 0]

\* ------------------------------------------------------------------- auth
\* What fetch_profiles(user_id) can do: return the role column (None when
\* it is null), "viewer" when there is no data, or raise.
LookupOutcomes == Roles \cup {None, "raised"}

\* "Iniciar sesion" with a password the service refuses: sign_in raises
\* before the session is stored; only the sidebar error is shown.
SignInRefused(s) ==
    /\ session[s] = None
    /\ UNCHANGED vars

\* "Iniciar sesion" accepted: the session is stored first, then the role
\* lookup runs; when it raises, the except branch shows the error and
\* role keeps the value it had.
SignIn(s, u, out) ==
    /\ session[s] = None
    /\ session' = [session EXCEPT ![s] = u]
    /\ role' = IF out = "raised" THEN role ELSE [role EXCEPT ![s] = out]
    /\ lookup' = [lookup EXCEPT ![s] = out]
    /\ UNCHANGED <<store, writer, uploadVars, fetchVars>>

\* "Cerrar sesion": session is cleared, role is not.
SignOut(s) ==
    /\ session[s] # None
    /\ pc[s] # "upserting"
    /\ session' = [session EXCEPT ![s] = None]
    /\ lookup' = [lookup EXCEPT ![s] = None]
    /\ files' = [files EXCEPT ![s] = <<>>]
    /\ ResetRun(s)
    /\ UNCHANGED <<store, writer, role, fetchVars>>

\* ----------------------------------------------------------------- upload
\* The admin picks files in the empty uploader.
SelectFiles(s) ==
    /\ UploadEnabled(s)
    /\ files[s] = <<>>
    /\ \E fs \in Uploads : files' = [files EXCEPT ![s] = fs]
    /\ UNCHANGED <<store, writer, authVars, pc, data, i, total, report, retry, before, prevI,
                   fetchVars>>

\* The admin removes the files from the uploader; the script reruns and
\* the page of the last run is gone.
ClearFiles(s) ==
    /\ UploadEnabled(s)
    /\ files[s] # <<>>
    /\ pc[s] # "upserting"
    /\ files' = [files EXCEPT ![s] = <<>>]
    /\ ResetRun(s)
    /\ UNCHANGED <<store, writer, authVars, fetchVars>>

chunk(s) == SubSeq(data[s], i[s] + 1, Min(i[s] + BATCH, Len(data[s])))

payload(s) == safe_json_records(chunk(s))

\* "Subir y unificar en base": the per-file loop, the concat, and the loop
\* set-up up to the first round trip.
ClickUpload(s) ==
    /\ UploadEnabled(s)
    /\ files[s] # <<>>
    /\ pc[s] # "upserting"
    /\ LET fs == files[s]
           d == concat(fs, session[s], 1)
           again == pc[s] \in {"done", "failed"}
           rep == [NoReport EXCEPT !.skipped = skipped(fs, 1)]
           ok == [rep EXCEPT !.kind = "success", !.counts = {0}]
       IN  /\ retry' = [retry EXCEPT ![s] = again]
           /\ before' = [before EXCEPT ![s] = store]
           /\ prevI' = [prevI EXCEPT ![s] = IF again THEN i[s] ELSE 0]
           /\ i' = [i EXCEPT ![s] = 0]
           /\ total' = [total EXCEPT ![s] = 0]
           /\ IF all_new_empty(fs)
              THEN /\ data' = [data EXCEPT ![s] = <<>>]
                   /\ pc' = [pc EXCEPT ![s] = "done"]
                   /\ report' = [report EXCEPT ![s] = [rep EXCEPT !.kind = "warning"]]
              ELSE /\ data' = [data EXCEPT ![s] = d]
                   /\ pc' = [pc EXCEPT ![s] = IF Len(d) = 0 THEN "done" ELSE "upserting"]
                   /\ report' = [report EXCEPT ![s] = IF Len(d) = 0 THEN ok ELSE rep]
    /\ UNCHANGED <<store, writer, authVars, files, fetchVars>>

\* execute() raises: the exception leaves the script; total is not shown.
Raise(s, why) ==
    /\ pc' = [pc EXCEPT ![s] = "failed"]
    /\ report' = [report EXCEPT ![s].kind = "exception", ![s].why = why]
    /\ UNCHANGED <<store, writer, authVars, files, data, i, total, retry, before, prevI,
                   fetchVars>>

\* The round trip of the current batch fails (network, service).
RoundTripFails(s) ==
    /\ pc[s] = "upserting"
    /\ Raise(s, "network")

\* The statement proposes one row_id twice: PostgreSQL refuses it whole
\* ("ON CONFLICT DO UPDATE command cannot affect row a second time").
StoreRejects(s) ==
    /\ pc[s] = "upserting"
    /\ HasDup(payload(s))
    /\ Raise(s, "21000")

\* One batch committed; after the last one the success line is written.
UpsertBatch(s) ==
    /\ pc[s] = "upserting"
    /\ ~HasDup(payload(s))
    /\ store' = upsert(store, payload(s))
    /\ writer' = {w \in writer : w[1] \notin ids(payload(s))}
                    \cup {<<id, s>> : id \in ids(payload(s))}
    /\ total' = [total EXCEPT ![s] = @ + Len(chunk(s))]
    /\ i' = [i EXCEPT ![s] = @ + BATCH]
    /\ IF i[s] + BATCH >= Len(data[s])
       THEN /\ pc' = [pc EXCEPT ![s] = "done"]
            /\ report' = [report EXCEPT ![s].kind = "success", ![s].counts = {total'[s]}]
       ELSE UNCHANGED <<pc, report>>
    /\ UNCHANGED <<authVars, files, data, retry, before, prevI, fetchVars>>

\* ------------------------------------------------------------- range read
\* The rows the filter lets through: gte and lte on fecha_hora; a null
\* fecha_hora satisfies neither.
Matching(table, df, dt) ==
    {r \in table : r.fecha_hora # NaT /\ r.fecha_hora >= df /\ r.fecha_hora <= dt}

\* The query has no order clause: the table answers in some row order,
\* taken here to be the same for every page of one read (no writer runs).
Orders(table, df, dt) ==
    LET m == Matching(table, df, dt)
        n == Cardinality(m)
    IN  {q \in [1..n -> m] : \A a, b \in 1..n : a # b => q[a] # q[b]}

\* q.range(off, off + page_size - 1).execute().data
Page(rows, off) == SubSeq(rows, off + 1, Min(off + page_size, Len(rows)))

\* Variant: the loop stops at an empty page only.
ShortPageEmpty(rows) == Len(rows) = 0

\* len(rows) < page_size
ShortPage(rows) == Len(rows) < page_size

\* A script run reaches fetch_turnos with the slider's range.
StartFetch(df, dt) ==
    /\ fpc = "idle"
    /\ fpc' = "paging"
    /\ date_from' = df
    /\ date_to' = dt
    /\ order' \in Orders(store, df, dt)
    /\ from_i' = 0
    /\ pages' = 0
    /\ all_rows' = <<>>
    /\ pageLens' = <<>>
    /\ UNCHANGED <<store, writer, authVars, uploadVars>>

\* One iteration of for _ in range(max_pages).
FetchPage ==
    /\ fpc = "paging"
    /\ pages < max_pages
    /\ LET rows == Page(order, from_i)
       IN  /\ pages' = pages + 1
           /\ all_rows' = all_rows \o rows
           /\ pageLens' = Append(pageLens, Len(rows))
           /\ IF ShortPage(rows)
              THEN /\ fpc' = "returned"
                   /\ UNCHANGED from_i
              ELSE /\ from_i' = from_i + page_size
                   /\ fpc' = IF pages + 1 = max_pages THEN "returned" ELSE "paging"
    /\ UNCHANGED <<store, writer, authVars, uploadVars, date_from, date_to, order>>

\* The next script run: the DataFrame of the last one is gone.
Rerun ==
    /\ fpc = "returned"
    /\ fpc' = "idle"
    /\ date_from' = 0
    /\ date_to' = 0
    /\ order' = <<>>
    /\ from_i' = 0
    /\ pages' = 0
    /\ all_rows' = <<>>
    /\ pageLens' = <<>>
    /\ UNCHANGED <<store, writer, authVars, uploadVars>>

\* --------------------------------------------------------- specifications
IdleUpload ==
    /\ files = [s \in Sessions |-> <<>>]
    /\ pc = [s \in Sessions |-> "idle"]
    /\ data = [s \in Sessions |-> <<>>]
    /\ i = [s \in Sessions |-> 0]
    /\ total = [s \in Sessions |-> 0]
    /\ report = [s \in Sessions |-> NoReport]
    /\ retry = [s \in Sessions |-> FALSE]
    /\ before = [s \in Sessions |-> {}]
    /\ prevI = [s \in Sessions |-> 0]

IdleFetch ==
    /\ fpc = "idle"
    /\ date_from = 0
    /\ date_to = 0
    /\ order = <<>>
    /\ from_i = 0
    /\ pages = 0
    /\ all_rows = <<>>
    /\ pageLens = <<>>

\* One browser session from its first script run, on an empty table.
Init ==
    /\ store = {}
    /\ writer = {}
    /\ session = [s \in Sessions |-> None]
    /\ role = [s \in Sessions |-> None]
    /\ lookup = [s \in Sessions |-> None]
    /\ IdleUpload
    /\ IdleFetch

Next ==
    \/ SignInRefused("s1")
    \/ \E u \in Users, out \in LookupOutcomes : SignIn("s1", u, out)
    \/ SignOut("s1")
    \/ SelectFiles("s1")
    \/ ClearFiles("s1")
    \/ ClickUpload("s1")
    \/ RoundTripFails("s1")
    \/ StoreRejects("s1")
    \/ UpsertBatch("s1")

Spec == Init /\ [][Next]_vars

\* One administrator, signed in, uploading again and again.
InitUpload ==
    /\ store = {}
    /\ writer = {}
    /\ session = [s \in Sessions |-> IF s = "s1" THEN "u1" ELSE None]
    /\ role = [s \in Sessions |-> IF s = "s1" THEN "admin" ELSE None]
    /\ lookup = [s \in Sessions |-> IF s = "s1" THEN "admin" ELSE None]
    /\ IdleUpload
    /\ IdleFetch

NextUpload ==
    \/ SelectFiles("s1")
    \/ ClearFiles("s1")
    \/ ClickUpload("s1")
    \/ RoundTripFails("s1")
    \/ StoreRejects("s1")
    \/ UpsertBatch("s1")

SpecUpload == InitUpload /\ [][NextUpload]_vars

\* Two administrators, each with one file selected, each uploading once,
\* at the same time.
UserOf(s) == IF s = "s1" THEN "u1" ELSE "u2"

InitRace ==
    /\ store = {}
    /\ writer = {}
    /\ session = [s \in Sessions |-> UserOf(s)]
    /\ role = [s \in Sessions |-> "admin"]
    /\ lookup = [s \in Sessions |-> "admin"]
    /\ files \in [Sessions -> RaceUploads]
    /\ pc = [s \in Sessions |-> "idle"]
    /\ data = [s \in Sessions |-> <<>>]
    /\ i = [s \in Sessions |-> 0]
    /\ total = [s \in Sessions |-> 0]
    /\ report = [s \in Sessions |-> NoReport]
    /\ retry = [s \in Sessions |-> FALSE]
    /\ before = [s \in Sessions |-> {}]
    /\ prevI = [s \in Sessions |-> 0]
    /\ IdleFetch

NextRace ==
    \E s \in Sessions :
        \/ (pc[s] = "idle" /\ ClickUpload(s))
        \/ RoundTripFails(s)
        \/ StoreRejects(s)
        \/ UpsertBatch(s)

SpecRace == InitRace /\ [][NextRace]_vars

\* A reader on a table that earlier uploads filled, with no writer.
FetchFechas == {"01/03/2024", "02/03/2024", "31/02/2024"}

FetchRow(k, f) ==
    [DNI |-> ToString(k), Fecha |-> f, Hora |-> "09:30",
     Ubicacion |-> "U", Procedimiento |-> "P", Paciente |-> "a"]

FetchStores ==
    UNION {{Range(safe_json_records([k \in 1..n |-> DataRow(FetchRow(k, ft[k]), "u1")])) :
              ft \in [1..n -> FetchFechas]} : n \in 0..MaxStore}

FetchRanges == {<<0, 1000>>, <<750, 2190>>, <<1000, 3000>>}

InitFetch ==
    /\ store \in FetchStores
    /\ writer = {}
    /\ session = [s \in Sessions |-> None]
    /\ role = [s \in Sessions |-> None]
    /\ lookup = [s \in Sessions |-> None]
    /\ IdleUpload
    /\ IdleFetch

NextFetch ==
    \/ \E r \in FetchRanges : StartFetch(r[1], r[2])
    \/ FetchPage
    \/ Rerun

SpecFetch == InitFetch /\ [][NextFetch]_vars

\* ----------------------------------------------------------------- claims
Valid(f) == REQUIRED_COLS \subseteq f.columns

\* Rows of the valid files before file k of the selection.
RECURSIVE RowsBefore(_, _)
RowsBefore(fs, k) ==
    IF k <= 1 THEN 0
    ELSE RowsBefore(fs, k - 1) + (IF Valid(fs[k - 1]) THEN Len(fs[k - 1].rows) ELSE 0)

ValidRows(fs) == RowsBefore(fs, Len(fs) + 1)

\* The records of the run as sent, and those of the batches committed.
Sent(s) == safe_json_records(data[s])
Committed(s) == Min(i[s], Len(data[s]))

UniqueIds(table) == \A a, b \in table : a.row_id = b.row_id => a = b

KeyDetermines(table) ==
    \A a, b \in table :
        (a.dni = b.dni /\ a.fecha = b.fecha /\ a.hora = b.hora
           /\ a.ubicacion = b.ubicacion /\ a.procedimiento = b.procedimiento)
        => a.row_id = b.row_id

\* C1: a run that repeats the finished run before it (same files, same
\* user, no other writer) and gets as far as that run did leaves the table
\* exactly as it was when it started: same row_ids, same fields.
C1_Idempotent ==
    \A s \in Sessions :
        (retry[s] /\ pc[s] \in {"done", "failed"} /\ i[s] = prevI[s])
        => store = before[s]

\* A completed repeat of a two-batch run whose batches hold one row_id
\* with different fields.
C1_Witness ==
    \E s \in Sessions :
        /\ retry[s] /\ pc[s] = "done" /\ i[s] = prevI[s]
        /\ \E a \in 1..BATCH, b \in (BATCH + 1)..Len(data[s]) :
              data[s][a].row_id = data[s][b].row_id /\ data[s][a] # data[s][b]

\* C2: after every step the table holds at most one record per row_id,
\* records that agree on dni, fecha, hora, ubicacion and procedimiento have
\* the same row_id, and every record of a committed batch is in the table
\* whole, user_id and fecha_hora included.
C2_StoreIdentity ==
    [][/\ UniqueIds(store')
       /\ KeyDetermines(store')
       /\ \A s \in Sessions : i'[s] > i[s] => Range(payload(s)) \subseteq store']_vars

\* A finished run replaced a record another user had written with other
\* fields.
C2_Witness ==
    \E s \in Sessions :
        /\ pc[s] = "done"
        /\ \E r \in before[s], q \in store :
              r.row_id = q.row_id /\ r.user_id # q.user_id /\ r.paciente # q.paciente

\* C3: when a batch fails, the batches before it are in the table, the run
\* does not report success, and the count already committed is shown.
C3_FailureShowsCommitted ==
    \A s \in Sessions :
        pc[s] = "failed"
        => /\ report[s].kind # "success"
           /\ total[s] = Committed(s)
           /\ total[s] \in report[s].counts

\* C4: an upload whose records repeat a row_id completes (unless a round
\* trip fails) and the table then holds, for every row_id of the upload,
\* the fields of its last occurrence.
C4_LastDuplicateWins ==
    \A s \in Sessions :
        (pc[s] \in {"done", "failed"} /\ report[s].why # "network" /\ HasDup(Sent(s)))
        => /\ pc[s] = "done"
           /\ \A k \in 1..Len(data[s]) :
                 (\A m \in (k + 1)..Len(data[s]) : data[s][m].row_id # data[s][k].row_id)
                 => Sent(s)[k] \in store

\* C5: a file with a missing required column is skipped and reported with
\* its name and the missing columns; the run's data are the rows of the
\* valid files, in order, whatever the place of the skipped file; no other
\* record enters the table; every row of a valid file is in the table as
\* soon as its batch is committed; the run never fails because of the
\* skipped file; and a run that completes reports the number of rows of the
\* valid files.
C5_FileIsolation ==
    \A s \in Sessions :
        pc[s] # "idle" =>
        LET fs == files[s] IN
        /\ \A k \in 1..Len(fs) :
              ~Valid(fs[k]) <=>
                 [name |-> FileName(k), faltan |-> REQUIRED_COLS \ fs[k].columns]
                    \in Range(report[s].skipped)
        /\ Len(report[s].skipped) = Cardinality({k \in 1..Len(fs) : ~Valid(fs[k])})
        /\ Len(data[s]) = ValidRows(fs)
        /\ \A k \in 1..Len(fs) :
              Valid(fs[k]) =>
                 \A j \in 1..Len(fs[k].rows) :
                    data[s][RowsBefore(fs, k) + j] = DataRow(fs[k].rows[j], session[s])
        /\ \A r \in store \ before[s] :
              \E k \in 1..Len(fs) :
                 Valid(fs[k]) /\ r \in Range(safe_json_records(
                    [j \in 1..Len(fs[k].rows) |-> DataRow(fs[k].rows[j], session[s])]))
        /\ (report[s].kind = "warning") <=> (\A k \in 1..Len(fs) : ~Valid(fs[k]))
        /\ \A k \in 1..Len(fs) :
              Valid(fs[k]) =>
                 \A j \in 1..Len(fs[k].rows) :
                    RowsBefore(fs, k) + j <= Committed(s) =>
                       \E r \in store : r.row_id = row_id(fs[k].rows[j])
        /\ pc[s] = "failed" =>
              \/ report[s].why = "network"
              \/ report[s].why = "21000" /\ HasDup(payload(s))
        /\ pc[s] = "done" /\ report[s].kind # "warning" =>
              /\ report[s].kind = "success"
              /\ report[s].counts = {ValidRows(fs)}
              /\ total[s] = ValidRows(fs)
              /\ Committed(s) = ValidRows(fs)

\* A completed upload of a skipped file, whose row is in no valid file and
\* not in the table, followed by a valid file with rows.
C5_Witness ==
    \E s \in Sessions :
        /\ pc[s] = "done" /\ report[s].kind = "success" /\ Len(files[s]) = 2
        /\ ~Valid(files[s][1]) /\ Valid(files[s][2])
        /\ Len(files[s][2].rows) > 0
        /\ \E j \in 1..Len(files[s][1].rows) :
              \A r \in store : r.row_id # row_id(files[s][1].rows[j])

Unparseable(r) == r.Fecha = "31/02/2024" \/ r.Hora = "99:99"

\* C8: a row of a valid file whose Fecha/Hora text is no date is in the
\* run's data with fecha_hora null and its fecha and hora text; as soon as
\* its batch is committed the row is in the table, fecha_hora null, with
\* its row_id and text; a run fails only on a failed round trip or on a
\* batch that repeats a row_id; and a run that completes has committed
\* every batch.
C8_NullTimeIngested ==
    \A s \in Sessions :
        pc[s] # "idle" =>
        /\ \A k \in 1..Len(files[s]) :
              Valid(files[s][k]) =>
                 \A j \in 1..Len(files[s][k].rows) :
                    LET r == files[s][k].rows[j]
                        d == data[s][RowsBefore(files[s], k) + j]
                    IN  Unparseable(r) =>
                          /\ d.row_id = row_id(r) /\ d.fecha_hora = NaT
                          /\ d.fecha = r.Fecha /\ d.hora = r.Hora
                          /\ RowsBefore(files[s], k) + j <= Committed(s) =>
                                \E q \in store :
                                   /\ q.row_id = row_id(r) /\ q.fecha_hora = NaT
                                   /\ q.fecha = r.Fecha /\ q.hora = r.Hora
        /\ pc[s] = "failed" =>
              \/ report[s].why = "network"
              \/ report[s].why = "21000" /\ HasDup(payload(s))
        /\ pc[s] = "done" => Committed(s) = Len(data[s])

\* A completed upload that put a row with an unparseable date in the table.
C8_Witness ==
    \E s \in Sessions :
        /\ pc[s] = "done" /\ report[s].kind = "success"
        /\ \E d \in Range(data[s]) : d.fecha = "31/02/2024"
        /\ \E q \in store \ before[s] : q.fecha = "31/02/2024" /\ q.fecha_hora = NaT

\* C7: with two sessions' batches interleaved in any order, the table
\* holds one record per row_id, and it is, whole, the last record with that
\* row_id among the batches committed by the session that wrote the row_id
\* last.
C7_LastWriteWhole ==
    /\ UniqueIds(store)
    /\ \A r \in store :
          \E w \in writer :
             /\ w[1] = r.row_id
             /\ \E k \in 1..Committed(w[2]) :
                   /\ Sent(w[2])[k] = r
                   /\ \A m \in (k + 1)..Committed(w[2]) : Sent(w[2])[m].row_id # r.row_id

\* Both sessions are between batches, each has committed the same row_id
\* with different fields, and the table holds the second session's.
C7_Witness ==
    /\ pc["s1"] = "upserting" /\ pc["s2"] = "upserting"
    /\ \E a \in 1..Committed("s1"), b \in 1..Committed("s2") :
          /\ Sent("s1")[a].row_id = Sent("s2")[b].row_id
          /\ Sent("s1")[a].paciente # Sent("s2")[b].paciente
          /\ Sent("s2")[b] \in store

\* C6: fetch_turnos returns exactly the records whose fecha_hora lies in
\* [date_from, date_to], each once, however many pages they fill.
C6_ExactRange ==
    fpc = "returned"
    => /\ Range(all_rows) = Matching(store, date_from, date_to)
       /\ Len(all_rows) = Cardinality(Matching(store, date_from, date_to))

\* C9: at most max_pages requests; every page but the last one received is
\* full; the loop goes on, at offset (pages * page_size), only while every
\* page was full and fewer than max_pages were read; it has returned right
\* after the first short page or after max_pages pages.
C9_PagingStops ==
    /\ pages <= max_pages
    /\ Len(pageLens) = pages
    /\ \A k \in 1..(pages - 1) : pageLens[k] = page_size
    /\ fpc = "paging" =>
          /\ pages < max_pages
          /\ \A k \in 1..pages : pageLens[k] = page_size
          /\ from_i = pages * page_size
    /\ fpc = "returned" =>
          /\ pages >= 1
          /\ pageLens[pages] < page_size \/ pages = max_pages

\* The read stopped at an empty page that followed a full one.
C9_Witness ==
    fpc = "returned" /\ pages = 2 /\ pageLens[1] = page_size /\ pageLens[2] = 0

\* C10: the upload section is enabled only if the role lookup made at the
\* sign-in of the current principal returned "admin".
C10_WriteFollowsLookup ==
    \A s \in Sessions : UploadEnabled(s) => lookup[s] = "admin"

====
